---- MODULE Spec2Model ----
(***************************************************************************)
(* Verification model of the krux signing core:                            *)
(*   src/src/krux/psbt.py  PSBTSigner, is_multisig, get_cosigners,         *)
(*                         get_policy                                      *)
(*   src/src/krux/key.py   Key.get_default_derivation,                     *)
(*                         Key.get_final_word_candidates                   *)
(*                                                                         *)
(* The embit primitives the code calls (scripts, HD derivation, PSBT       *)
(* (de)serialisation, base-N codecs) are modelled symbolically: a script   *)
(* or key is the term it was built from, so two of them are equal exactly  *)
(* when they were built the same way (no hash or key collisions).          *)
(***************************************************************************)
EXTENDS Integers, Sequences, FiniteSets, TLC

VARIABLES
    wallet,         \* the Wallet collaborator handed to PSBTSigner.__init__
    psbt_data,      \* the psbt_data argument of PSBTSigner.__init__
    qr_format,      \* self.qr_format
    phase,          \* "new" | "ready" | "signed" | "rejected"
    error,          \* message of the exception that ended the last call, or ""
    psbt,           \* self.psbt
    policy,         \* self.policy
    base_encoding,  \* self.base_encoding (0 stands for None)
    ur_type,        \* self.ur_type ("" stands for None)
    last,           \* the last method called on the signer and what it returned
    call,           \* arguments of the pure function under study
    ret             \* what the pure function returned

vars == <<wallet, psbt_data, qr_format, phase, error, psbt, policy,
          base_encoding, ur_type, last, call, ret>>

signer_vars == <<wallet, psbt_data, qr_format, phase, error, psbt, policy,
                 base_encoding, ur_type, last>>

(***************************************************************************)
(* Bounds of the model.                                                    *)
(***************************************************************************)
MaxInputs == 2
MaxOutputs == 2
MaxPubkeys == 2

(***************************************************************************)
(* Sequence helpers (Python list operations).                              *)
(***************************************************************************)
Range(s) == {s[i] : i \in 1..Len(s)}

\* s[:-2]
DropLast2(s) == SubSeq(s, 1, Len(s) - 2)

\* s[-2:]
Last2(s) == IF Len(s) >= 2 THEN SubSeq(s, Len(s) - 1, Len(s)) ELSE s

RECURSIVE Insert(_, _)
Insert(x, s) ==
    IF s = <<>> THEN <<x>>
    ELSE IF x <= Head(s) THEN <<x>> \o s
    ELSE <<Head(s)>> \o Insert(x, Tail(s))

\* faulty variant: the list is returned in the order it was built
sorted_skipped(s) == s

\* sorted(cosigners)
RECURSIVE sorted(_)
sorted(s) == IF s = <<>> THEN <<>> ELSE Insert(Head(s), sorted(Tail(s)))

RECURSIVE SumSeq(_)
SumSeq(s) == IF s = <<>> THEN 0 ELSE Head(s) + SumSeq(Tail(s))

\* all sequences over S of length lo..hi
SeqsOf(S, lo, hi) == UNION {[1..n -> S] : n \in lo..hi}

(***************************************************************************)
(* HD keys.  A key is the term <<root fingerprint>> \o path; derive        *)
(* appends indices.  embit marks a hardened index by setting bit 31; TLC   *)
(* integers are 32-bit signed, so bit 30 is used: all that matters is that *)
(* a hardened index differs from every unhardened one.                     *)
(***************************************************************************)
HARDENED == 2^30

h(i) == i + HARDENED

\* HDKey.derive(path)
derive(key, path) == key \o path

\* HDKey.from_seed(...): the root key of the seed with this fingerprint
root(fingerprint) == <<fingerprint>>

\* HDKey.to_base58(): an injective serialisation whose order is unrelated to
\* the order in which keys are met
RECURSIVE b58_fold(_, _)
b58_fold(key, acc) ==
    IF key = <<>> THEN acc
    ELSE b58_fold(Tail(key), (acc * 7 + (Head(key) % 1009) * 5 + 3) % 1009)

to_base58(key) == b58_fold(key, 0)

(***************************************************************************)
(* key.py: default derivation paths.                                       *)
(***************************************************************************)
MULTISIG_SCRIPT_PURPOSE == 48

SINGLESIG_SCRIPT_PURPOSE(script_type) ==
    CASE script_type = "p2pkh" -> 44
      [] script_type = "p2sh-p2wpkh" -> 49
      [] script_type = "p2wpkh" -> 84
      [] script_type = "p2tr" -> 86

DER_SINGLE(purpose, coin, account) == <<h(purpose), h(coin), h(account)>>

DER_MULTI(purpose, coin, account) == <<h(purpose), h(coin), h(account), h(2)>>

get_default_derivation(multisig, coin, account, script_type) ==
    LET purpose == IF multisig THEN MULTISIG_SCRIPT_PURPOSE
                   ELSE SINGLESIG_SCRIPT_PURPOSE(script_type)
    IN  IF multisig THEN DER_MULTI(purpose, coin, account)
        ELSE DER_SINGLE(purpose, coin, account)

(***************************************************************************)
(* Scripts.  A script is a record: kind is what script_type() reports,     *)
(* inner is the kind of the script a p2sh hash commits to, m and keys are  *)
(* the threshold and the public keys the script commits to.                *)
(***************************************************************************)
Script(kind, inner, m, keys) == [kind |-> kind, inner |-> inner, m |-> m, keys |-> keys]

\* an absent witness_script / redeem_script (Python None)
NoScript == Script("None", "", 0, <<>>)

\* script.Script(b"")
EmptyScript == Script("empty", "", 0, <<>>)

\* an m-of-n multisig witness script
multisig_script(m, pubkeys) == Script("multisig", "", m, pubkeys)

\* bytes that are no multisig template
JunkScript == Script("junk", "", 0, <<>>)

p2wpkh(pubkey) == Script("p2wpkh", "", 0, <<pubkey>>)

p2pkh(pubkey) == Script("p2pkh", "", 0, <<pubkey>>)

p2tr(pubkey) == Script("p2tr", "", 0, <<pubkey>>)

p2wsh(sc) == Script("p2wsh", sc.kind, sc.m, sc.keys)

p2sh(sc) == Script("p2sh", IF sc.kind = "p2wsh" THEN "p2wsh:" \o sc.inner ELSE sc.kind, sc.m, sc.keys)

script_type(sc) == sc.kind

\* results of calls that may raise: ok, or the exception's message
Ok(v) == [ok |-> TRUE, val |-> v, err |-> ""]

Raise(msg) == [ok |-> FALSE, val |-> <<>>, err |-> msg]

\* embit.finalizer.parse_multisig: (m, pubkeys) or an exception
parse_multisig(sc) ==
    IF sc.kind = "multisig" /\ Len(sc.keys) >= 1 /\ sc.m >= 1 /\ sc.m <= Len(sc.keys)
    THEN Ok([m |-> sc.m, pubkeys |-> sc.keys])
    ELSE Raise("invalid multisig script")

(***************************************************************************)
(* psbt.py: is_multisig, get_cosigners, get_policy.                        *)
(* A derivation map (bip32_derivations) is a sequence of entries           *)
(* [pub, fingerprint, derivation] in the map's iteration order; the known  *)
(* xpubs are a sequence of entries [xpub, fingerprint, derivation].        *)
(***************************************************************************)
\* faulty variant: only the native type is taken for a witness-script type
is_wsh_type_native(t) == t = "p2wsh"

\* "p2wsh" in script_type
is_wsh_type(t) == t \in {"p2wsh", "p2sh-p2wsh"}

\* self.policy before the first input was seen (Python None)
NoPolicy == [none |-> TRUE]

is_multisig(pol) ==
    /\ "type" \in DOMAIN pol
    /\ is_wsh_type(pol.type)
    /\ "m" \in DOMAIN pol
    /\ "n" \in DOMAIN pol
    /\ "cosigners" \in DOMAIN pol

\* pubkey in derivations
has_derivation(pubkey, derivations) ==
    \E k \in 1..Len(derivations) : derivations[k].pub = pubkey

\* derivations[pubkey]
derivation_of(pubkey, derivations) ==
    derivations[CHOOSE k \in 1..Len(derivations) : derivations[k].pub = pubkey]

\* faulty variant: the declared derivation is trusted, the key is not derived
xpub_matches_noderive(entry, der, pubkey) ==
    /\ entry.fingerprint = der.fingerprint
    /\ entry.derivation = DropLast2(der.derivation)

\* the three checks of the inner loop, for one known xpub
xpub_matches(entry, der, pubkey) ==
    /\ entry.fingerprint = der.fingerprint
    /\ entry.derivation = DropLast2(der.derivation)
    /\ derive(entry.xpub, Last2(der.derivation)) = pubkey

\* for xpub in xpubs: ... append; break
RECURSIVE first_match(_, _, _, _)
first_match(xpubs, j, der, pubkey) ==
    IF j > Len(xpubs) THEN <<>>
    ELSE IF xpub_matches(xpubs[j], der, pubkey) THEN <<to_base58(xpubs[j].xpub)>>
    ELSE first_match(xpubs, j + 1, der, pubkey)

\* for _, pubkey in enumerate(pubkeys): ...
RECURSIVE cosigners_loop(_, _, _, _, _)
cosigners_loop(pubkeys, i, derivations, xpubs, cosigners) ==
    IF i > Len(pubkeys) THEN Ok(cosigners)
    ELSE IF ~has_derivation(pubkeys[i], derivations) THEN Raise("missing derivation")
    ELSE cosigners_loop(pubkeys, i + 1, derivations, xpubs,
            cosigners \o first_match(xpubs, 1, derivation_of(pubkeys[i], derivations), pubkeys[i]))

get_cosigners(pubkeys, derivations, xpubs) ==
    LET r == cosigners_loop(pubkeys, 1, derivations, xpubs, <<>>)
    IN  IF ~r.ok THEN r
        ELSE IF Len(r.val) # Len(pubkeys) THEN Raise("cannot get all cosigners")
        ELSE Ok(sorted(r.val))

\* the script type after the p2sh disambiguation
resolved_type(scope, scriptpubkey) ==
    IF script_type(scriptpubkey) = "p2sh"
    THEN IF scope.witness_script # NoScript THEN "p2sh-p2wsh"
         ELSE IF scope.redeem_script # NoScript /\ script_type(scope.redeem_script) = "p2wpkh"
              THEN "p2sh-p2wpkh"
         ELSE "p2sh"
    ELSE script_type(scriptpubkey)

get_policy(scope, scriptpubkey, xpubs) ==
    LET t == resolved_type(scope, scriptpubkey)
    IN  IF is_wsh_type(t) /\ scope.witness_script # NoScript
        THEN LET p == parse_multisig(scope.witness_script)
             IN  IF ~p.ok THEN p
                 ELSE LET c == get_cosigners(p.val.pubkeys, scope.bip32_derivations, xpubs)
                      IN  IF ~c.ok THEN c
                          ELSE Ok([type |-> t, m |-> p.val.m, n |-> Len(c.val),
                                   cosigners |-> c.val])
        ELSE Ok([type |-> t])

(***************************************************************************)
(* The keys of the model: three seeds (fingerprints 1, 2, 3) that are      *)
(* cosigners of one multisig wallet, and a foreign seed (fingerprint 9).   *)
(***************************************************************************)
\* NETWORKS[TEST_TXT]["bip32"], the coin type of the default network
TestCoin == 1

\* Key.derivation of a multisig key
AcctM == get_default_derivation(TRUE, TestCoin, 0, "p2wsh")

\* Key.derivation of a single-sig key of this script type
AcctS(stype) == get_default_derivation(FALSE, TestCoin, 0, stype)

\* Key.account of the multisig key of a seed
Xpub(fingerprint) == derive(root(fingerprint), AcctM)

\* an entry of the known-xpub map with the key's true origin
XEntry(fingerprint) ==
    [xpub |-> Xpub(fingerprint), fingerprint |-> fingerprint, derivation |-> AcctM]

\* an entry of a bip32_derivations map
DEntry(pub, fingerprint, derivation) ==
    [pub |-> pub, fingerprint |-> fingerprint, derivation |-> derivation]

\* the multisig key of a seed at change/index, and its true derivation entry
MPub(fingerprint, change, index) == derive(Xpub(fingerprint), <<change, index>>)

MDer(fingerprint, change, index) ==
    DEntry(MPub(fingerprint, change, index), fingerprint, AcctM \o <<change, index>>)

\* a key of the foreign seed, declared as if it were derived from seed 1
ForeignPub == derive(root(9), <<0, 0>>)

SpoofedDer == DEntry(ForeignPub, 1, AcctM \o <<0, 0>>)

\* sequences without repetition over a set, of every length
RECURSIVE Arrangements(_)
Arrangements(S) ==
    {<<>>} \cup UNION {{<<x>> \o t : t \in Arrangements(S \ {x})} : x \in S}

\* the bijections of 1..n
Perms(n) == {f \in [1..n -> 1..n] : \A i, j \in 1..n : f[i] = f[j] => i = j}

Permuted(s, f) == [i \in 1..Len(s) |-> s[f[i]]]

\* the values a pure-function specification leaves the signer at
NoSigner ==
    /\ wallet = <<>>
    /\ psbt_data = <<>>
    /\ qr_format = 0
    /\ phase = "none"
    /\ error = ""
    /\ psbt = <<>>
    /\ policy = NoPolicy
    /\ base_encoding = 0
    /\ ur_type = ""
    /\ last = <<>>

NotCalled == [called |-> FALSE]

(***************************************************************************)
(* get_cosigners on bounded inputs.                                        *)
(***************************************************************************)
CosignerPubkeys == {MPub(1, 0, 0), MPub(2, 0, 0), MPub(3, 1, 0), ForeignPub}

\* per key: no entry, the true entry, or an entry that does not bind it
CosignerDerivations ==
    { a \o b \o c \o d :
        a \in {<<>>, <<MDer(1, 0, 0)>>, <<DEntry(MPub(1, 0, 0), 2, AcctM \o <<0, 0>>)>>},
        b \in {<<>>, <<MDer(2, 0, 0)>>, <<DEntry(MPub(2, 0, 0), 2, <<h(48), 0, 0>>)>>},
        c \in {<<>>, <<MDer(3, 1, 0)>>},
        d \in {<<>>, <<SpoofedDer>>} }

\* the known-xpub map: any of the three cosigners, in any iteration order
CosignerXpubs ==
    UNION { {a \in Arrangements(S) : Len(a) = Cardinality(S)}
            : S \in SUBSET {XEntry(1), XEntry(2), XEntry(3)} }

InitCosigners ==
    /\ NoSigner
    /\ call \in [pubkeys : SeqsOf(CosignerPubkeys, 0, MaxPubkeys),
                 derivations : CosignerDerivations,
                 xpubs : CosignerXpubs]
    /\ ret = NotCalled

CallGetCosigners ==
    /\ ret = NotCalled
    /\ ret' = [called |-> TRUE,
               out |-> get_cosigners(call.pubkeys, call.derivations, call.xpubs)]
    /\ UNCHANGED <<signer_vars, call>>

NextCosigners == CallGetCosigners

SpecCosigners == InitCosigners /\ [][NextCosigners]_vars

(***************************************************************************)
(* What it is for a known xpub to bind a pubkey, stated on its own.        *)
(***************************************************************************)
Binds(entry, pubkey, derivations) ==
    \E k \in 1..Len(derivations) :
        /\ derivations[k].pub = pubkey
        /\ entry.fingerprint = derivations[k].fingerprint
        /\ LET d == derivations[k].derivation
               cut == IF Len(d) >= 2 THEN Len(d) - 2 ELSE 0
           IN  /\ entry.derivation = [i \in 1..cut |-> d[i]]
               /\ entry.xpub \o [i \in 1..(Len(d) - cut) |-> d[cut + i]] = pubkey

AllBound(pubkeys, derivations, xpubs) ==
    \A i \in 1..Len(pubkeys) :
        \E j \in 1..Len(xpubs) : Binds(xpubs[j], pubkeys[i], derivations)

Ascending(s) == \A i \in 1..(Len(s) - 1) : s[i] <= s[i + 1]

\* C8: get_cosigners fails exactly when some pubkey has no derivation entry or
\* no known xpub passing the three checks; otherwise it returns len(pubkeys)
\* base58 strings in ascending order, one bound known xpub per pubkey, and the
\* result is the same for every ordering of the pubkeys and of the known xpubs.
C8_CosignersContract ==
    ret.called =>
        /\ ret.out.ok <=> AllBound(call.pubkeys, call.derivations, call.xpubs)
        /\ ret.out.ok =>
            /\ Len(ret.out.val) = Len(call.pubkeys)
            /\ Ascending(ret.out.val)
            /\ \A i \in 1..Len(call.pubkeys) :
                 \E j \in 1..Len(call.xpubs) :
                    /\ Binds(call.xpubs[j], call.pubkeys[i], call.derivations)
                    /\ to_base58(call.xpubs[j].xpub) \in Range(ret.out.val)
            /\ \A v \in Range(ret.out.val) :
                 \E i \in 1..Len(call.pubkeys), j \in 1..Len(call.xpubs) :
                    /\ Binds(call.xpubs[j], call.pubkeys[i], call.derivations)
                    /\ to_base58(call.xpubs[j].xpub) = v
        /\ \A f \in Perms(Len(call.pubkeys)), g \in Perms(Len(call.xpubs)) :
             get_cosigners(Permuted(call.pubkeys, f), call.derivations,
                           Permuted(call.xpubs, g)) = ret.out

\* two distinct cosigners were bound and the sort changed the order they were met in
C8_Witness ==
    /\ ret.called
    /\ ret.out.ok
    /\ Len(call.pubkeys) = 2
    /\ call.pubkeys[1] # call.pubkeys[2]
    /\ \E j \in 1..Len(call.xpubs) :
         /\ Binds(call.xpubs[j], call.pubkeys[1], call.derivations)
         /\ ret.out.val[2] = to_base58(call.xpubs[j].xpub)
         /\ ret.out.val[1] < ret.out.val[2]

(***************************************************************************)
(* get_policy on bounded inputs: a scope (a PSBT input or output), its     *)
(* scriptPubKey and the known xpubs.                                       *)
(***************************************************************************)
Scope(witness_script, redeem_script, bip32_derivations) ==
    [witness_script |-> witness_script, redeem_script |-> redeem_script,
     bip32_derivations |-> bip32_derivations]

\* the 2-of-2 witness script of seeds 1 and 2 at change/index
WalletWS(m, change, index) == multisig_script(m, <<MPub(1, change, index), MPub(2, change, index)>>)

\* a witness script with a key none of the known xpubs derives
SpoofedWS == multisig_script(2, <<MPub(1, 0, 0), ForeignPub>>)

PolicyWitnessScripts == {NoScript, WalletWS(2, 0, 0), WalletWS(1, 0, 0), SpoofedWS, JunkScript}

PolicyRedeemScripts == {NoScript, p2wpkh(ForeignPub), p2wsh(WalletWS(2, 0, 0))}

PolicyDerivations ==
    { <<>>, <<MDer(1, 0, 0)>>, <<MDer(1, 0, 0), MDer(2, 0, 0)>>, <<MDer(1, 0, 0), SpoofedDer>> }

PolicyScriptPubKeys ==
    { p2wpkh(ForeignPub), p2pkh(ForeignPub), p2tr(ForeignPub),
      p2sh(p2wpkh(ForeignPub)), p2sh(p2pkh(ForeignPub)),
      p2sh(p2wsh(WalletWS(2, 0, 0))), p2wsh(WalletWS(2, 0, 0)) }

PolicyXpubs == { <<>>, <<XEntry(1)>>, <<XEntry(1), XEntry(2)>>, <<XEntry(2), XEntry(1)>> }

InitPolicy ==
    /\ NoSigner
    /\ call \in [scope : {Scope(w, r, d) : w \in PolicyWitnessScripts,
                                           r \in PolicyRedeemScripts,
                                           d \in PolicyDerivations},
                 scriptpubkey : PolicyScriptPubKeys,
                 xpubs : PolicyXpubs]
    /\ ret = NotCalled

CallGetPolicy ==
    /\ ret = NotCalled
    /\ ret' = [called |-> TRUE,
               out |-> get_policy(call.scope, call.scriptpubkey, call.xpubs)]
    /\ UNCHANGED <<signer_vars, call>>

NextPolicy == CallGetPolicy

SpecPolicy == InitPolicy /\ [][NextPolicy]_vars

\* the script type the scriptPubKey resolves to, as the contract states it
ExpectedType(scope, scriptpubkey) ==
    IF scriptpubkey.kind # "p2sh" THEN scriptpubkey.kind
    ELSE IF scope.witness_script # NoScript THEN "p2sh-p2wsh"
    ELSE IF scope.redeem_script.kind = "p2wpkh" THEN "p2sh-p2wpkh"
    ELSE "p2sh"

\* the scope carries a witness script under a type containing "p2wsh"
ExpectsMultisig(scope, scriptpubkey) ==
    /\ ExpectedType(scope, scriptpubkey) \in {"p2wsh", "p2sh-p2wsh"}
    /\ scope.witness_script # NoScript

\* that witness script is an m-of-n template whose keys all bind to known xpubs
WellFormedAndBound(scope, xpubs) ==
    /\ scope.witness_script.kind = "multisig"
    /\ scope.witness_script.m \in 1..Len(scope.witness_script.keys)
    /\ AllBound(scope.witness_script.keys, scope.bip32_derivations, xpubs)

SatisfiesIsMultisig(pol) ==
    /\ {"type", "m", "n", "cosigners"} \subseteq DOMAIN pol
    /\ pol.type \in {"p2wsh", "p2sh-p2wsh"}

\* C10: get_policy returns a multisig policy (with n the number of pubkeys of the
\* witness script) exactly when the resolved type contains "p2wsh" and the scope
\* carries a well-formed witness script whose pubkeys all bind to known
\* cosigners; the type is resolved as stated; every other policy returned is the
\* bare {type}; and under a "p2wsh" type a malformed witness script or unbound
\* pubkey makes get_policy fail.
C10_PolicyContract ==
    ret.called =>
        LET multi == /\ ExpectsMultisig(call.scope, call.scriptpubkey)
                     /\ WellFormedAndBound(call.scope, call.xpubs)
        IN  /\ (ret.out.ok /\ SatisfiesIsMultisig(ret.out.val)) <=> multi
            /\ multi =>
                 /\ ret.out.val.type = ExpectedType(call.scope, call.scriptpubkey)
                 /\ ret.out.val.m = call.scope.witness_script.m
                 /\ ret.out.val.n = Len(call.scope.witness_script.keys)
                 /\ Len(ret.out.val.cosigners) = ret.out.val.n
                 /\ is_multisig(ret.out.val)
            /\ (ret.out.ok /\ ~multi) =>
                 ret.out.val = [type |-> ExpectedType(call.scope, call.scriptpubkey)]
            /\ ~ret.out.ok <=>
                 /\ ExpectsMultisig(call.scope, call.scriptpubkey)
                 /\ ~WellFormedAndBound(call.scope, call.xpubs)

\* a nested-segwit multisig scope was resolved to p2sh-p2wsh and bound to two cosigners
C10_Witness ==
    /\ ret.called
    /\ ret.out.ok
    /\ call.scriptpubkey.kind = "p2sh"
    /\ SatisfiesIsMultisig(ret.out.val)
    /\ ret.out.val.type = "p2sh-p2wsh"
    /\ ret.out.val.n = 2

(***************************************************************************)
(* key.py: Key.get_final_word_candidates and Key.pick_final_word.          *)
(* A word is its index in WORDLIST.  The integer accu, 121 or 253 bits     *)
(* wide, is kept as the sequence of its 11-bit digits (the words), and     *)
(* entropy = (accu << len_needed) + i as the pair of accu and i: i is      *)
(* below 2^len_needed, so the sum is the concatenation of the two.         *)
(***************************************************************************)
\* len(WORDLIST)
WORDLIST_LEN == 2048

\* the top nbits bits of sha256 of the entropy bytes: a deterministic function
\* of the entropy with values in 0 .. 2^nbits - 1
RECURSIVE digest_fold(_, _)
digest_fold(words, acc) ==
    IF words = <<>> THEN acc
    ELSE digest_fold(Tail(words), (acc * 31 + Head(words) + 17) % 65521)

sha256_top_bits(accu, i, nbits) == (digest_fold(accu, 7) * 13 + i * 5 + (i \div 3)) % (2 ^ nbits)

\* faulty variant: the final length is taken per 32 bits of mnemonic, not per 33
len_target_per32(n) == ((n * 11 + 11) \div 32) * 32

\* len_target = (len(words) * 11 + 11) // 33 * 32
len_target(n) == ((n * 11 + 11) \div 33) * 32

\* len_needed = len_target - (len(words) * 11)
len_needed(n) == len_target(n) - (n * 11)

\* len_cksum = len_target // 32
len_cksum(n) == len_target(n) \div 32

\* faulty variant: the entropy bits are shifted by their own count
last_word_shift_needed(i, n, cksum) == (i * (2 ^ len_needed(n))) + cksum

\* (i << len_cksum) + cksum
last_word_index(i, n, cksum) == (i * (2 ^ len_cksum(n))) + cksum

\* the word index the loop computes for one i
candidate_index(words, i) ==
    last_word_index(i, Len(words), sha256_top_bits(words, i, len_cksum(Len(words))))

\* for i in range(2**len_needed): ... candidates.append(WORDLIST[...]);
\* WORDLIST[...] raises IndexError for an index outside the list
candidates_loop(words) ==
    LET count == 2 ^ len_needed(Len(words))
    IN  IF \E i \in 0..(count - 1) : candidate_index(words, i) \notin 0..(WORDLIST_LEN - 1)
        THEN Raise("IndexError")
        ELSE Ok([k \in 1..count |-> candidate_index(words, k - 1)])

get_final_word_candidates(words) ==
    IF Len(words) # 11 /\ Len(words) # 23 THEN Raise("must provide 11 or 23 words")
    ELSE candidates_loop(words)

\* the prefixes tried: every length up to MaxWords, the words an arithmetic
\* progression in the word list
MaxWords == 24
MaxSeed == 3

WordPrefixes ==
    { [k \in 1..n |-> ((a * 683) + (b * 411 + 1) * k) % WORDLIST_LEN] :
        n \in 0..MaxWords, a \in 0..MaxSeed, b \in 0..MaxSeed }

InitWords ==
    /\ NoSigner
    /\ call \in [words : WordPrefixes]
    /\ ret = NotCalled

CallGetFinalWordCandidates ==
    /\ ret = NotCalled
    /\ ret' = [called |-> TRUE, fn |-> "get_final_word_candidates",
               out |-> get_final_word_candidates(call.words)]
    /\ UNCHANGED <<signer_vars, call>>

\* pick_final_word: random.choice is any one of the candidates
CallPickFinalWord ==
    /\ ret = NotCalled
    /\ IF Len(call.words) # 11 /\ Len(call.words) # 23
       THEN ret' = [called |-> TRUE, fn |-> "pick_final_word",
                    out |-> Raise("must provide 11 or 23 words")]
       ELSE LET c == get_final_word_candidates(call.words)
            IN  IF ~c.ok THEN ret' = [called |-> TRUE, fn |-> "pick_final_word", out |-> c]
                ELSE \E k \in 1..Len(c.val) :
                        ret' = [called |-> TRUE, fn |-> "pick_final_word",
                                out |-> Ok(<<c.val[k]>>)]
    /\ UNCHANGED <<signer_vars, call>>

NextWords == CallGetFinalWordCandidates \/ CallPickFinalWord

SpecWords == InitWords /\ [][NextWords]_vars

\* BIP-39 validity of a mnemonic: its bits split into entropy and a checksum of
\* one bit per 32 bits of entropy, the checksum being the top bits of the hash of
\* the entropy.  The checksum is shorter than a word, so it is the low bits of
\* the last word and the rest of the last word ends the entropy.
ChecksumBits(nwords) == (nwords * 11) \div 33

MnemonicValid(mnemonic) ==
    LET cs == ChecksumBits(Len(mnemonic))
        final == mnemonic[Len(mnemonic)]
        prefix == SubSeq(mnemonic, 1, Len(mnemonic) - 1)
    IN  /\ (Len(mnemonic) * 11 - cs) = 32 * cs
        /\ final % (2 ^ cs) = sha256_top_bits(prefix, final \div (2 ^ cs), cs)

\* C9: get_final_word_candidates fails unless given 11 or 23 words; otherwise it
\* returns 2^needed_bits candidates (128 for 11 words, 8 for 23), the i-th with
\* index (i << checksum_bits) + cksum inside the word list, each completing the
\* prefix to a checksum-valid mnemonic, and no two of them equal.
C9_FinalWordCandidates ==
    (ret.called /\ ret.fn = "get_final_word_candidates") =>
        LET n == Len(call.words)
            cs == ChecksumBits(n + 1)
        IN  /\ ~ret.out.ok <=> n \notin {11, 23}
            /\ ret.out.ok =>
                /\ Len(ret.out.val) = 2 ^ (11 - cs)
                /\ n = 11 => (cs = 4 /\ Len(ret.out.val) = 128)
                /\ n = 23 => (cs = 8 /\ Len(ret.out.val) = 8)
                /\ \A k \in 1..Len(ret.out.val) :
                     /\ ret.out.val[k] \in 0..2047
                     /\ ret.out.val[k] \div (2 ^ cs) = k - 1
                     /\ MnemonicValid(Append(call.words, ret.out.val[k]))
                /\ \A j, k \in 1..Len(ret.out.val) :
                     ret.out.val[j] = ret.out.val[k] => j = k

\* candidates were returned for an 11-word and for a 23-word prefix
C9_Witness ==
    /\ ret.called
    /\ ret.fn = "get_final_word_candidates"
    /\ ret.out.ok
    /\ Len(call.words) = 23
    /\ Len(ret.out.val) = 8
    /\ ret.out.val[8] >= 7 * 256

(***************************************************************************)
(* The PSBT and its encodings.  Bytes and texts are the terms they were    *)
(* built from: PSBT.serialize wraps a PSBT, base_encode wraps bytes with   *)
(* the base, a UR wraps the CBOR of bytes; each decoder undoes exactly its *)
(* own encoder and raises on anything else.                                *)
(***************************************************************************)
\* from .qr import FORMAT_PMOFN
FORMAT_PMOFN == 1

\* urtypes.crypto.CRYPTO_PSBT
CRYPTO_PSBT == "crypto-psbt"

\* PSBT.serialize()
serialize(p) == [fmt |-> "psbt", content |-> p]

\* bytes that are no PSBT
JunkBytes == [fmt |-> "junk"]

\* PSBT.parse(data)
parse(data) ==
    IF "fmt" \in DOMAIN data /\ data.fmt = "psbt" THEN Ok(data.content)
    ELSE Raise("invalid PSBT")

\* base_encode(data, base).decode()
base_encode(data, base) == [base |-> base, data |-> data]

\* base_decode(text, base)
base_decode(text, base) ==
    IF "base" \in DOMAIN text /\ text.base = base THEN Ok(text.data)
    ELSE IF "readings" \in DOMAIN text /\ base \in DOMAIN text.readings
    THEN Ok(text.readings[base])
    ELSE Raise("invalid base encoding")

\* text that decodes in more than one base, to the bytes given for each
ambiguous_text(readings) == [readings |-> readings]

\* UR(CRYPTO_PSBT.type, urtypes.crypto.PSBT(data).to_cbor())
UR(data) == [ur |-> CRYPTO_PSBT, cbor |-> data]

\* isinstance(psbt_data, UR)
is_UR(data) == "ur" \in DOMAIN data

\* urtypes.crypto.PSBT.from_cbor(ur.cbor).data
from_cbor(ur) == ur.cbor

\* PSBT.parse(base_decode(psbt_data, base))
parse_base(data, base) ==
    LET d == base_decode(data, base) IN IF d.ok THEN parse(d.val) ELSE d

\* what the first part of __init__ leaves in self.psbt, self.base_encoding and
\* self.ur_type (0 and "" stand for None)
Decoded(p, base, ur) == Ok([psbt |-> p, base_encoding |-> base, ur_type |-> ur])

\* the base recorded for raw binary input
raw_base_encoding(format) == IF format = FORMAT_PMOFN THEN 64 ELSE 0

\* faulty variant: Base58 input is recorded as Base64
base58_recorded_as_64(p) == Decoded(p, 64, "")

\* self.psbt = PSBT.parse(base_decode(psbt_data, 58)); self.base_encoding = 58
decoded_base58(p) == Decoded(p, 58, "")

\* lines 43-73 of __init__
decode(data, format) ==
    IF is_UR(data)
    THEN LET u == parse(from_cbor(data))
         IN  IF u.ok THEN Decoded(u.val, 0, CRYPTO_PSBT) ELSE Raise("invalid PSBT")
    ELSE LET raw == parse(data)
             b64 == parse_base(data, 64)
             b58 == parse_base(data, 58)
             b43 == parse_base(data, 43)
         IN  IF raw.ok THEN Decoded(raw.val, raw_base_encoding(format), "")
             ELSE IF b64.ok THEN Decoded(b64.val, 64, "")
             ELSE IF b58.ok THEN decoded_base58(b58.val)
             ELSE IF b43.ok THEN Decoded(b43.val, 43, "")
             ELSE Raise("invalid PSBT")

(***************************************************************************)
(* PSBT scopes.  An input scope carries its witness UTXO; the transaction  *)
(* carries the outputs' scriptPubKeys and values, psbt.outputs their       *)
(* scopes.                                                                 *)
(***************************************************************************)
TxOut(script_pubkey, value) == [script_pubkey |-> script_pubkey, value |-> value]

\* an absent witness_utxo (Python None)
NoUtxo == [none |-> TRUE]

InputScope(witness_utxo, witness_script, redeem_script, bip32_derivations, partial_sigs) ==
    [witness_utxo |-> witness_utxo, witness_script |-> witness_script,
     redeem_script |-> redeem_script, bip32_derivations |-> bip32_derivations,
     partial_sigs |-> partial_sigs]

\* the scope of a freshly made PSBT(tx)
BlankInput == InputScope(NoUtxo, NoScript, NoScript, <<>>, {})

BlankOutput == Scope(NoScript, NoScript, <<>>)

\* embit's PSBT: the global xpub map, the transaction and the scopes
PSBT(xpubs, inputs, vout, outputs) ==
    [xpubs |-> xpubs, tx |-> [vin |-> Len(inputs), vout |-> vout],
     inputs |-> inputs, outputs |-> outputs]

\* PSBT(tx): a PSBT of that transaction with nothing else in it
PSBT_of_tx(tx) ==
    [xpubs |-> <<>>, tx |-> tx,
     inputs |-> [i \in 1..tx.vin |-> BlankInput],
     outputs |-> [i \in 1..Len(tx.vout) |-> BlankOutput]]

(***************************************************************************)
(* The Wallet collaborator: is_multisig(), is_loaded(), policy,            *)
(* descriptor and the fingerprint of key.root.                             *)
(***************************************************************************)
\* an absent descriptor / descriptor.key / key origin (Python None)
NoDescriptor == [none |-> TRUE]

NoKey == [none |-> TRUE]

NoOrigin == [none |-> TRUE]

DescriptorKey(key, origin) == [key |-> key, origin |-> origin]

Origin(fingerprint, derivation) == [fingerprint |-> fingerprint, derivation |-> derivation]

Descriptor(key, keys) == [key |-> key, keys |-> keys]

Wallet(fingerprint, multisig, loaded, pol, descriptor) ==
    [fingerprint |-> fingerprint, multisig |-> multisig, loaded |-> loaded,
     policy |-> pol, descriptor |-> descriptor]

\* PSBTSigner.xpubs
xpubs_of(p, w) ==
    IF p.xpubs # <<>> THEN Ok(p.xpubs)
    ELSE IF w.descriptor = NoDescriptor THEN Raise("missing xpubs")
    ELSE LET descriptor_keys == IF w.descriptor.key # NoKey THEN <<w.descriptor.key>>
                                ELSE w.descriptor.keys
             with_origin == SelectSeq(descriptor_keys, LAMBDA k : k.origin # NoOrigin)
         IN  Ok([i \in 1..Len(with_origin) |->
                   [xpub |-> with_origin[i].key,
                    fingerprint |-> with_origin[i].origin.fingerprint,
                    derivation |-> with_origin[i].origin.derivation]])

(***************************************************************************)
(* PSBTSigner.__init__, after the decoding.                                *)
(***************************************************************************)
\* faulty variant: two policies are compared by their script type alone
policies_differ_by_type(a, b) == a.type # b.type

\* self.policy != inp_policy
policies_differ(a, b) == a # b

\* for inp in self.psbt.inputs: ... (lines 78-91); a missing witness_utxo
\* raises inside the try block like a failing get_policy
RECURSIVE inputs_loop(_, _, _, _)
inputs_loop(inputs, i, pol, xpubs) ==
    IF i > Len(inputs) THEN Ok(pol)
    ELSE LET inp_policy ==
                IF inputs[i].witness_utxo = NoUtxo THEN Raise("AttributeError")
                ELSE get_policy(inputs[i], inputs[i].witness_utxo.script_pubkey, xpubs)
         IN  IF ~inp_policy.ok THEN Raise("Unable to get policy")
             ELSE IF pol = NoPolicy THEN inputs_loop(inputs, i + 1, inp_policy.val, xpubs)
             ELSE IF policies_differ(pol, inp_policy.val) THEN Raise("mixed inputs in the tx")
             ELSE inputs_loop(inputs, i + 1, pol, xpubs)

\* faulty variant: the loaded wallet's policy is not compared
check_wallet_shape_only(pol, w) ==
    IF pol = NoPolicy THEN Raise("TypeError")
    ELSE IF is_multisig(pol) /\ ~w.multisig THEN Raise("multisig tx")
    ELSE IF ~is_multisig(pol) /\ w.multisig THEN Raise("not multisig tx")
    ELSE Ok(pol)

\* lines 93-102; is_multisig(None) raises TypeError when there was no input
check_wallet(pol, w) ==
    IF pol = NoPolicy THEN Raise("TypeError")
    ELSE IF is_multisig(pol) /\ ~w.multisig THEN Raise("multisig tx")
    ELSE IF ~is_multisig(pol) /\ w.multisig THEN Raise("not multisig tx")
    ELSE IF w.loaded /\ w.policy # pol THEN Raise("policy mismatch")
    ELSE Ok(pol)

\* lines 93-102, and the signer that __init__ leaves when nothing was raised
init_checked(w, decoded, p) ==
    IF ~p.ok THEN p
    ELSE IF ~check_wallet(p.val, w).ok THEN check_wallet(p.val, w)
    ELSE Ok([psbt |-> decoded.psbt, base_encoding |-> decoded.base_encoding,
             ur_type |-> decoded.ur_type, policy |-> p.val])

\* lines 77-91, given what self.xpubs() returned
init_inputs(w, decoded, x) ==
    IF ~x.ok THEN x
    ELSE init_checked(w, decoded, inputs_loop(decoded.psbt.inputs, 1, NoPolicy, x.val))

\* line 76 onwards, given what the decoding left
init_validate(w, d) ==
    IF ~d.ok THEN d
    ELSE init_inputs(w, d.val, xpubs_of(d.val.psbt, w))

\* PSBTSigner.__init__: the fields of the new signer, or the exception
init_signer(w, data, format) == init_validate(w, decode(data, format))

Construct ==
    /\ phase = "new"
    /\ LET r == init_signer(wallet, psbt_data, qr_format)
       IN  IF r.ok
           THEN /\ phase' = "ready"
                /\ error' = ""
                /\ psbt' = r.val.psbt
                /\ policy' = r.val.policy
                /\ base_encoding' = r.val.base_encoding
                /\ ur_type' = r.val.ur_type
           ELSE /\ phase' = "rejected"
                /\ error' = r.err
                /\ UNCHANGED <<psbt, policy, base_encoding, ur_type>>
    /\ last' = [op |-> "__init__"]
    /\ UNCHANGED <<wallet, psbt_data, qr_format, call, ret>>

(***************************************************************************)
(* PSBTSigner.outputs.                                                     *)
(***************************************************************************)
\* the local variable sc before its first assignment
Unbound == [unbound |-> TRUE]

\* "pkh" in self.policy["type"]
is_pkh_type(t) == t \in {"p2pkh", "p2wpkh", "p2sh-p2wpkh"}

\* lines 137-152: the value given to sc for an output whose policy equals
\* self.policy; script.p2wsh(None) raises
rebuilt_script(out, pol, w) ==
    IF pol.type \in {"p2wsh", "p2sh-p2wsh"} /\ out.witness_script = NoScript
    THEN Raise("AttributeError")
    ELSE IF pol.type = "p2wsh" THEN Ok(p2wsh(out.witness_script))
    ELSE IF pol.type = "p2sh-p2wsh" THEN Ok(p2sh(p2wsh(out.witness_script)))
    ELSE IF is_pkh_type(pol.type) /\ Len(out.bip32_derivations) > 0
    THEN LET der == out.bip32_derivations[1].derivation
             my_hd_prvkey == derive(root(w.fingerprint), der)
         IN  IF pol.type = "p2wpkh" THEN Ok(p2wpkh(my_hd_prvkey))
             ELSE IF pol.type = "p2sh-p2wpkh" THEN Ok(p2sh(p2wpkh(my_hd_prvkey)))
             ELSE Ok(EmptyScript)
    ELSE Ok(EmptyScript)

\* lines 157-160: is addr_type change?  derivation[3] raises IndexError on a
\* derivation of fewer than four indices
is_change(out) ==
    IF Len(out.bip32_derivations) = 0 THEN Ok(FALSE)
    ELSE IF Len(out.bip32_derivations[1].derivation) < 4 THEN Raise("IndexError")
    ELSE Ok(out.bip32_derivations[1].derivation[4] = 1)

\* what the loop has built so far; classes records, per output, the list its
\* entry was appended to
OutputsAcc(sc, classes, spend_list, self_transfer_list, change_list) ==
    [sc |-> sc, classes |-> classes, spend_list |-> spend_list,
     self_transfer_list |-> self_transfer_list, change_list |-> change_list]

\* (address, value) of a transaction output; the address is the scriptPubKey
ListEntry(txout) == <<txout.script_pubkey, txout.value>>

\* lines 157-189 for an output whose scriptPubKey equals sc: the entry goes to
\* change_list or to self_transfer_list
step_owned(txout, acc, sc, ch) ==
    IF ~ch.ok THEN ch
    ELSE IF ch.val
    THEN Ok(OutputsAcc(sc, Append(acc.classes, "change"), acc.spend_list,
                       acc.self_transfer_list, Append(acc.change_list, ListEntry(txout))))
    ELSE Ok(OutputsAcc(sc, Append(acc.classes, "self-transfer"), acc.spend_list,
                       Append(acc.self_transfer_list, ListEntry(txout)), acc.change_list))

\* line 155 onwards, sc being what the name holds when line 155 reads it: unbound
\* if no output so far had the policy of the inputs
step_compare(out, txout, acc, sc) ==
    IF ~sc.ok THEN sc
    ELSE IF sc.val = Unbound THEN Raise("UnboundLocalError")
    ELSE IF sc.val = txout.script_pubkey
    THEN step_owned(txout, acc, sc.val, is_change(out))
    ELSE Ok(OutputsAcc(sc.val, Append(acc.classes, "spend"),
                       Append(acc.spend_list, ListEntry(txout)),
                       acc.self_transfer_list, acc.change_list))

\* lines 129-152: sc is assigned only when the output's policy is self.policy
step_policy(out, txout, acc, pol, w, out_policy) ==
    IF ~out_policy.ok THEN out_policy
    ELSE step_compare(out, txout, acc,
                      IF out_policy.val = pol THEN rebuilt_script(out, pol, w)
                      ELSE Ok(acc.sc))

\* one iteration of the loop over the outputs (lines 127-189)
outputs_step(out, txout, acc, pol, w, xpubs) ==
    step_policy(out, txout, acc, pol, w, get_policy(out, txout.script_pubkey, xpubs))

\* for i, out in enumerate(self.psbt.outputs): ... (lines 126-189)
RECURSIVE outputs_loop(_, _, _, _, _, _)
RECURSIVE outputs_continue(_, _, _, _, _, _)
outputs_loop(p, i, acc, pol, w, xpubs) ==
    IF i > Len(p.outputs) THEN Ok(acc)
    ELSE outputs_continue(p, i, outputs_step(p.outputs[i], p.tx.vout[i], acc, pol, w, xpubs),
                          pol, w, xpubs)

outputs_continue(p, i, stepped, pol, w, xpubs) ==
    IF ~stepped.ok THEN stepped
    ELSE outputs_loop(p, i + 1, stepped.val, pol, w, xpubs)

\* the sum of the values of a list of (address, value)
RECURSIVE amount_of(_)
amount_of(list) == IF list = <<>> THEN 0 ELSE Head(list)[2] + amount_of(Tail(list))

\* the messages of one class: "%d. <label>: address, amount"
messages_of(label, list) ==
    [k \in 1..Len(list) |->
        [label |-> label, no |-> k, address |-> list[k][1], amount |-> list[k][2]]]

\* lines 191-241: the fee and the messages, given the three lists
outputs_messages(inputs, inp_amount, spend_list, self_transfer_list, change_list) ==
    [spend_list |-> spend_list,
     self_transfer_list |-> self_transfer_list,
     change_list |-> change_list,
     fee |-> inp_amount - amount_of(spend_list) - amount_of(self_transfer_list)
             - amount_of(change_list),
     messages |->
        <<[label |-> "resume", inputs |-> inputs, inp_amount |-> inp_amount,
           spend |-> Len(spend_list), spend_amount |-> amount_of(spend_list),
           self_or_change |-> Len(self_transfer_list) + Len(change_list),
           self_or_change_amount |-> amount_of(self_transfer_list) + amount_of(change_list),
           fee |-> inp_amount - amount_of(spend_list) - amount_of(self_transfer_list)
                   - amount_of(change_list)]>>
        \o messages_of("Spend", spend_list)
        \o messages_of("Self-transfer", self_transfer_list)
        \o messages_of("Change", change_list)]

outputs_finish(p, inp_amount, r) ==
    IF ~r.ok THEN r
    ELSE Ok([classes |-> r.val.classes] @@
            outputs_messages(Len(p.inputs), inp_amount, r.val.spend_list,
                             r.val.self_transfer_list, r.val.change_list))

\* line 125 onwards, given what self.xpubs() returned
outputs_classify(p, pol, w, inp_amount, x) ==
    IF ~x.ok THEN x
    ELSE outputs_finish(p, inp_amount,
            outputs_loop(p, 1, OutputsAcc(Unbound, <<>>, <<>>, <<>>, <<>>), pol, w, x.val))

\* PSBTSigner.outputs: the messages (and what they were built from), or the
\* exception; inp.witness_utxo.value raises on an input without a witness UTXO
outputs_result(p, pol, w) ==
    IF \E k \in 1..Len(p.inputs) : p.inputs[k].witness_utxo = NoUtxo
    THEN Raise("AttributeError")
    ELSE outputs_classify(p, pol, w,
            SumSeq([k \in 1..Len(p.inputs) |-> p.inputs[k].witness_utxo.value]),
            xpubs_of(p, w))

Outputs ==
    /\ phase \in {"ready", "signed"}
    /\ LET r == outputs_result(psbt, policy, wallet)
       IN  /\ last' = [op |-> "outputs", out |-> r]
           /\ error' = r.err
    /\ UNCHANGED <<wallet, psbt_data, qr_format, phase, psbt, policy,
                   base_encoding, ur_type, call, ret>>

(***************************************************************************)
(* PSBTSigner.sign and PSBTSigner.psbt_qr.                                 *)
(***************************************************************************)
\* the keys of an input that the wallet's root key derives: those PSBT.sign_with
\* signs for
signable(inp, w) ==
    { d.pub : d \in { e \in Range(inp.bip32_derivations) :
                        /\ e.fingerprint = w.fingerprint
                        /\ derive(root(w.fingerprint), e.derivation) = e.pub } }

RECURSIVE count_signable(_, _)
count_signable(inputs, w) ==
    IF inputs = <<>> THEN 0
    ELSE Cardinality(signable(Head(inputs), w)) + count_signable(Tail(inputs), w)

\* self.psbt.sign_with(self.wallet.key.root): the PSBT with the signatures
\* added in place, and their number
sign_with(p, w) ==
    [psbt |-> [p EXCEPT !.inputs =
                  [i \in 1..Len(p.inputs) |->
                      [p.inputs[i] EXCEPT !.partial_sigs = @ \cup signable(p.inputs[i], w)]]],
     sigs_added |-> count_signable(p.inputs, w)]

\* faulty variant: the PSBT is kept whole
trimmed_psbt_untrimmed(p) == p

\* lines 249-251: PSBT(self.psbt.tx) with each input's partial_sigs copied
trimmed_psbt(p) ==
    [PSBT_of_tx(p.tx) EXCEPT !.inputs =
        [i \in 1..Len(p.inputs) |->
            [BlankInput EXCEPT !.partial_sigs = p.inputs[i].partial_sigs]]]

Sign ==
    /\ phase \in {"ready", "signed"}
    /\ IF sign_with(psbt, wallet).sigs_added = 0
       THEN /\ error' = "cannot sign"
            /\ UNCHANGED <<psbt, phase>>
       ELSE /\ error' = ""
            /\ psbt' = trimmed_psbt(sign_with(psbt, wallet).psbt)
            /\ phase' = "signed"
    /\ last' = [op |-> "sign"]
    /\ UNCHANGED <<wallet, psbt_data, qr_format, policy, base_encoding, ur_type, call, ret>>

\* PSBTSigner.psbt_qr
psbt_qr(p, base, ur, format) ==
    LET data == serialize(p)
        encoded == IF base # 0 THEN base_encode(data, base) ELSE data
    IN  IF ur = CRYPTO_PSBT THEN <<UR(encoded), format>>
        ELSE <<encoded, format>>

PsbtQr ==
    /\ phase \in {"ready", "signed"}
    /\ last' = [op |-> "psbt_qr", out |-> psbt_qr(psbt, base_encoding, ur_type, qr_format)]
    /\ error' = ""
    /\ UNCHANGED <<wallet, psbt_data, qr_format, phase, psbt, policy,
                   base_encoding, ur_type, call, ret>>

Next == Construct \/ Outputs \/ Sign \/ PsbtQr

(***************************************************************************)
(* The wallets, inputs and outputs the signer is tried on.  The wallet's   *)
(* seed has fingerprint 1; seed 2 is its cosigner; seed 9 is foreign.      *)
(***************************************************************************)
\* the single-sig key of the wallet's seed at change/index, and its derivation
SPub(stype, change, index) == derive(root(1), AcctS(stype) \o <<change, index>>)

SDer(stype, change, index) ==
    DEntry(SPub(stype, change, index), 1, AcctS(stype) \o <<change, index>>)

\* the policy a loaded wallet holds
SinglePolicy(stype) == [type |-> stype]

MultiPolicy(m) ==
    [type |-> "p2wsh", m |-> m, n |-> 2,
     cosigners |-> sorted(<<to_base58(Xpub(1)), to_base58(Xpub(2))>>)]

SingleDescriptor(stype) ==
    Descriptor(DescriptorKey(derive(root(1), AcctS(stype)), Origin(1, AcctS(stype))), <<>>)

MultiDescriptor ==
    Descriptor(NoKey, <<DescriptorKey(Xpub(1), Origin(1, AcctM)),
                        DescriptorKey(Xpub(2), Origin(2, AcctM))>>)

Wallets ==
    { Wallet(1, FALSE, FALSE, NoPolicy, NoDescriptor),
      Wallet(1, FALSE, TRUE, SinglePolicy("p2wpkh"), SingleDescriptor("p2wpkh")),
      Wallet(1, FALSE, TRUE, SinglePolicy("p2sh-p2wpkh"), SingleDescriptor("p2sh-p2wpkh")),
      Wallet(3, FALSE, FALSE, NoPolicy, NoDescriptor),
      Wallet(1, TRUE, FALSE, NoPolicy, NoDescriptor),
      Wallet(1, TRUE, TRUE, MultiPolicy(2), MultiDescriptor),
      Wallet(1, TRUE, TRUE, MultiPolicy(1), MultiDescriptor) }

InWpkh ==
    InputScope(TxOut(p2wpkh(SPub("p2wpkh", 0, 0)), 50), NoScript, NoScript,
               <<SDer("p2wpkh", 0, 0)>>, {})

InShWpkh ==
    InputScope(TxOut(p2sh(p2wpkh(SPub("p2sh-p2wpkh", 0, 0))), 60), NoScript,
               p2wpkh(SPub("p2sh-p2wpkh", 0, 0)), <<SDer("p2sh-p2wpkh", 0, 0)>>, {})

InMulti ==
    InputScope(TxOut(p2wsh(WalletWS(2, 0, 0)), 70), WalletWS(2, 0, 0), NoScript,
               <<MDer(1, 0, 0), MDer(2, 0, 0)>>, {})

\* the same wallet's coin, already signed by the cosigner
InMultiSigned ==
    InputScope(TxOut(p2wsh(WalletWS(2, 0, 1)), 80), WalletWS(2, 0, 1), NoScript,
               <<MDer(2, 0, 1), MDer(1, 0, 1)>>, {MPub(2, 0, 1)})

InMulti1of2 ==
    InputScope(TxOut(p2wsh(WalletWS(1, 0, 0)), 90), WalletWS(1, 0, 0), NoScript,
               <<MDer(1, 0, 0), MDer(2, 0, 0)>>, {})

\* a multisig coin one of whose keys no known xpub derives
InSpoofed ==
    InputScope(TxOut(p2wsh(SpoofedWS), 40), SpoofedWS, NoScript,
               <<MDer(1, 0, 0), SpoofedDer>>, {})

\* an input without a witness UTXO
InNoUtxo == InputScope(NoUtxo, NoScript, NoScript, <<SDer("p2wpkh", 0, 0)>>, {})

Inputs == {InWpkh, InShWpkh, InMulti, InMultiSigned, InMulti1of2, InSpoofed, InNoUtxo}

\* an output: its transaction output and its scope
Output(script_pubkey, value, witness_script, redeem_script, bip32_derivations) ==
    [txout |-> TxOut(script_pubkey, value),
     scope |-> Scope(witness_script, redeem_script, bip32_derivations)]

\* external destinations
OutSpendWpkh == Output(p2wpkh(ForeignPub), 1, NoScript, NoScript, <<>>)

OutSpendTr == Output(p2tr(ForeignPub), 2, NoScript, NoScript, <<>>)

OutSpendSh == Output(p2sh(p2pkh(ForeignPub)), 3, NoScript, NoScript, <<>>)

\* an external key declared at one of the wallet's change paths
OutFakeChange ==
    Output(p2wpkh(ForeignPub), 4, NoScript, NoScript,
           <<DEntry(ForeignPub, 1, AcctS("p2wpkh") \o <<1, 0>>)>>)

\* an external multisig whose scope carries its witness script
OutForeignMulti ==
    Output(p2wsh(SpoofedWS), 5, SpoofedWS, NoScript, <<MDer(1, 0, 0), SpoofedDer>>)

\* the single-sig wallet's own addresses
OutChangeWpkh ==
    Output(p2wpkh(SPub("p2wpkh", 1, 0)), 6, NoScript, NoScript, <<SDer("p2wpkh", 1, 0)>>)

OutSelfWpkh ==
    Output(p2wpkh(SPub("p2wpkh", 0, 1)), 7, NoScript, NoScript, <<SDer("p2wpkh", 0, 1)>>)

OutChangeShWpkh ==
    Output(p2sh(p2wpkh(SPub("p2sh-p2wpkh", 1, 0))), 8, NoScript,
           p2wpkh(SPub("p2sh-p2wpkh", 1, 0)), <<SDer("p2sh-p2wpkh", 1, 0)>>)

\* the wallet's account key itself, declared by its three-level path
OutAccountKey ==
    Output(p2wpkh(derive(root(1), AcctS("p2wpkh"))), 9, NoScript, NoScript,
           <<DEntry(derive(root(1), AcctS("p2wpkh")), 1, AcctS("p2wpkh"))>>)

\* the multisig wallet's own addresses
OutChangeMulti ==
    Output(p2wsh(WalletWS(2, 1, 0)), 10, WalletWS(2, 1, 0), NoScript,
           <<MDer(1, 1, 0), MDer(2, 1, 0)>>)

OutSelfMulti ==
    Output(p2wsh(WalletWS(2, 0, 1)), 11, WalletWS(2, 0, 1), NoScript,
           <<MDer(1, 0, 1), MDer(2, 0, 1)>>)

\* the multisig change address again, its scope left empty
OutChangeMultiBare == Output(p2wsh(WalletWS(2, 1, 0)), 12, NoScript, NoScript, <<>>)

Outputs_ ==
    { OutSpendWpkh, OutSpendTr, OutSpendSh, OutFakeChange, OutForeignMulti,
      OutChangeWpkh, OutSelfWpkh, OutChangeShWpkh, OutAccountKey,
      OutChangeMulti, OutSelfMulti, OutChangeMultiBare }

\* the PSBT of these inputs and outputs
MakePSBT(xpubs, inputs, outs) ==
    PSBT(xpubs, inputs, [i \in 1..Len(outs) |-> outs[i].txout],
         [i \in 1..Len(outs) |-> outs[i].scope])

GlobalXpubs == {<<>>, <<XEntry(1), XEntry(2)>>}

\* psbt_data in each of the five encodings, and data that is no PSBT
Encodings(p) ==
    { UR(serialize(p)), serialize(p), base_encode(serialize(p), 64),
      base_encode(serialize(p), 58), base_encode(serialize(p), 43),
      UR(JunkBytes), JunkBytes, base_encode(JunkBytes, 64) }

\* the values of a signer that has not been constructed
Unconstructed ==
    /\ phase = "new"
    /\ error = ""
    /\ psbt = <<>>
    /\ policy = NoPolicy
    /\ base_encoding = 0
    /\ ur_type = ""
    /\ last = [op |-> "none"]
    /\ call = <<>>
    /\ ret = NotCalled

\* every wallet, every list of inputs, every encoding and QR format; one
\* external output
Init ==
    /\ wallet \in Wallets
    /\ qr_format \in 0..2
    /\ \E x \in GlobalXpubs, ins \in SeqsOf(Inputs, 0, MaxInputs) :
          psbt_data \in Encodings(MakePSBT(x, ins, <<OutSpendWpkh>>))
    /\ Unconstructed

Spec == Init /\ [][Next]_vars

\* three wallets with a coin of theirs, every list of outputs, raw binary input
InitOutputs ==
    /\ qr_format = 0
    /\ \E c \in { <<Wallet(1, FALSE, FALSE, NoPolicy, NoDescriptor), InWpkh>>,
                  <<Wallet(1, FALSE, TRUE, SinglePolicy("p2sh-p2wpkh"),
                           SingleDescriptor("p2sh-p2wpkh")), InShWpkh>>,
                  <<Wallet(1, TRUE, TRUE, MultiPolicy(2), MultiDescriptor), InMulti>> },
          outs \in SeqsOf(Outputs_, 0, MaxOutputs) :
          /\ wallet = c[1]
          /\ psbt_data = serialize(MakePSBT(<<XEntry(1), XEntry(2)>>, <<c[2], c[2]>>, outs))
    /\ Unconstructed

SpecOutputs == InitOutputs /\ [][Next]_vars

(***************************************************************************)
(* PSBTSigner.__init__ step by step: one step per try block of the         *)
(* parsing (lines 43-73), then the validation (lines 76-102).  call holds  *)
(* the steps taken so far, ret the try block to enter next.                *)
(***************************************************************************)
\* faulty variant: Base58 is tried before Base64
next_attempt_58_first(failed) ==
    CASE failed = "raw" -> "base58"
      [] failed = "base58" -> "base64"
      [] failed = "base64" -> "base43"
      [] OTHER -> "none"

\* the try block nested in the except clause of the one that failed; the
\* innermost except clause and the one of the UR branch raise
next_attempt(failed) ==
    CASE failed = "raw" -> "base64"
      [] failed = "base64" -> "base58"
      [] failed = "base58" -> "base43"
      [] OTHER -> "none"

\* the body of one try block
attempt(encoding, data, format) ==
    CASE encoding = "ur" ->
            LET u == parse(from_cbor(data))
            IN  IF u.ok THEN Decoded(u.val, 0, CRYPTO_PSBT) ELSE u
      [] encoding = "raw" ->
            LET r == parse(data)
            IN  IF r.ok THEN Decoded(r.val, raw_base_encoding(format), "") ELSE r
      [] encoding = "base64" ->
            LET b == parse_base(data, 64) IN IF b.ok THEN Decoded(b.val, 64, "") ELSE b
      [] encoding = "base58" ->
            LET b == parse_base(data, 58) IN IF b.ok THEN decoded_base58(b.val) ELSE b
      [] OTHER ->
            LET b == parse_base(data, 43) IN IF b.ok THEN Decoded(b.val, 43, "") ELSE b

\* one try block runs: it leaves the PSBT and the encoding, or control passes to
\* its except clause
TryBlock(encoding) ==
    LET d == attempt(encoding, psbt_data, qr_format)
        next == IF encoding = "ur" THEN "none" ELSE next_attempt(encoding)
    IN  /\ call' = Append(call, encoding)
        /\ last' = [op |-> "__init__"]
        /\ IF d.ok
           THEN /\ phase' = "parsed"
                /\ psbt' = d.val.psbt
                /\ base_encoding' = d.val.base_encoding
                /\ ur_type' = d.val.ur_type
                /\ ret' = [called |-> FALSE, pc |-> "validate"]
                /\ UNCHANGED error
           ELSE /\ IF next = "none"
                   THEN phase' = "rejected" /\ error' = "invalid PSBT"
                   ELSE phase' = "parsing" /\ UNCHANGED error
                /\ ret' = [called |-> FALSE, pc |-> next]
                /\ UNCHANGED <<psbt, base_encoding, ur_type>>
        /\ UNCHANGED <<wallet, psbt_data, qr_format, policy>>

ParseUR == phase = "new" /\ is_UR(psbt_data) /\ TryBlock("ur")

ParseRaw == phase = "new" /\ ~is_UR(psbt_data) /\ TryBlock("raw")

ParseBase64 == phase = "parsing" /\ ret.pc = "base64" /\ TryBlock("base64")

ParseBase58 == phase = "parsing" /\ ret.pc = "base58" /\ TryBlock("base58")

ParseBase43 == phase = "parsing" /\ ret.pc = "base43" /\ TryBlock("base43")

\* lines 76-102, on the PSBT the parsing left
Validate ==
    /\ phase = "parsed"
    /\ LET r == init_validate(wallet, Decoded(psbt, base_encoding, ur_type))
       IN  IF r.ok
           THEN phase' = "ready" /\ policy' = r.val.policy /\ UNCHANGED error
           ELSE phase' = "rejected" /\ error' = r.err /\ UNCHANGED policy
    /\ call' = Append(call, "validate")
    /\ ret' = [called |-> FALSE, pc |-> "none"]
    /\ UNCHANGED <<wallet, psbt_data, qr_format, psbt, base_encoding, ur_type, last>>

NextDecode ==
    ParseUR \/ ParseRaw \/ ParseBase64 \/ ParseBase58 \/ ParseBase43 \/ Validate

\* the PSBTs the data may hold: a single-sig one, a multisig one, one of mixed inputs
DecodePSBTs ==
    { MakePSBT(<<XEntry(1), XEntry(2)>>, ins, <<OutSpendWpkh>>) :
        ins \in {<<InWpkh>>, <<InMulti>>, <<InWpkh, InMulti>>} }

\* text that decodes in two or three bases, to PSBTs or to bytes that are none
AmbiguousTexts ==
    { ambiguous_text(r) :
        r \in UNION { [B -> {serialize(p) : p \in DecodePSBTs} \cup {JunkBytes}] :
                        B \in {{64, 58}, {58, 43}, {64, 43}, {64, 58, 43}} } }

\* every encoding of every PSBT, data that is no PSBT, and ambiguous text
DecodeInputs ==
    UNION { Encodings(p) : p \in DecodePSBTs }
    \cup { base_encode(JunkBytes, 58), base_encode(JunkBytes, 43) }
    \cup AmbiguousTexts

InitDecode ==
    /\ wallet \in { Wallet(1, FALSE, FALSE, NoPolicy, NoDescriptor),
                    Wallet(1, TRUE, FALSE, NoPolicy, NoDescriptor) }
    /\ qr_format \in 0..2
    /\ psbt_data \in DecodeInputs
    /\ Unconstructed

SpecDecode == InitDecode /\ [][NextDecode]_vars

(***************************************************************************)
(* Properties of PSBTSigner.                                               *)
(***************************************************************************)
\* the encoding psbt_data came in, read off the data itself
GivenEncoding ==
    IF "ur" \in DOMAIN psbt_data THEN "ur"
    ELSE IF "base" \in DOMAIN psbt_data THEN "base"
    ELSE "raw"

GivenBytes ==
    IF GivenEncoding = "ur" THEN psbt_data.cbor
    ELSE IF GivenEncoding = "base" THEN psbt_data.data
    ELSE psbt_data

\* psbt_data holds a PSBT, and which
GivenIsPSBT == GivenBytes.fmt = "psbt"

GivenPSBT == GivenBytes.content

\* the policy of one input, or the failure to infer it
InferredPolicy(inp, xpubs) ==
    IF inp.witness_utxo = NoUtxo THEN Raise("no witness utxo")
    ELSE get_policy(inp, inp.witness_utxo.script_pubkey, xpubs)

InputPolicies ==
    [i \in 1..Len(GivenPSBT.inputs) |->
        InferredPolicy(GivenPSBT.inputs[i], xpubs_of(GivenPSBT, wallet).val)]

\* the first input at which the loop over the inputs must stop
FirstBadInput(pols) ==
    LET bad == {i \in 1..Len(pols) : ~pols[i].ok \/ pols[i].val # pols[1].val}
    IN  CHOOSE i \in bad : \A j \in bad : i <= j

\* C2: construction succeeds only if a policy is inferred for every input and
\* all inputs yield the same policy, which is then self.policy; two inputs with
\* different policies, in either order, or an input without a policy make it
\* fail, with "mixed inputs in the tx" or "Unable to get policy" according to
\* which the loop meets first.
C2_InputPolicies ==
    (phase # "new" /\ GivenIsPSBT /\ xpubs_of(GivenPSBT, wallet).ok) =>
        LET pols == InputPolicies
            failing == \E i \in 1..Len(pols) : ~pols[i].ok
            mixed == \E i, j \in 1..Len(pols) :
                        pols[i].ok /\ pols[j].ok /\ pols[i].val # pols[j].val
        IN  /\ phase \in {"ready", "signed"} =>
                \A i \in 1..Len(pols) : pols[i].ok /\ pols[i].val = policy
            /\ (failing \/ mixed) =>
                /\ phase = "rejected"
                /\ error = IF ~pols[FirstBadInput(pols)].ok THEN "Unable to get policy"
                           ELSE "mixed inputs in the tx"
            /\ (mixed /\ ~failing) => error = "mixed inputs in the tx"

\* two multisig inputs of the same script type but different thresholds were refused
C2_Witness ==
    /\ phase = "rejected"
    /\ error = "mixed inputs in the tx"
    /\ GivenIsPSBT
    /\ Len(GivenPSBT.inputs) = 2
    /\ GivenPSBT.inputs[1].witness_script.m = 1
    /\ GivenPSBT.inputs[2].witness_script.m = 2

\* C3: a signer is Ready only if the multisig-ness of the inferred policy is the
\* wallet's and a loaded wallet's policy equals the inferred one; when the
\* inputs agree on a policy, any such mismatch rejects the construction, and on
\* a rejected construction no method has acted.
C3_WalletCrossCheck ==
    /\ phase \in {"ready", "signed"} =>
        /\ SatisfiesIsMultisig(policy) = wallet.multisig
        /\ wallet.loaded => wallet.policy = policy
    /\ phase = "rejected" => (last.op = "__init__" /\ psbt = <<>>)
    /\ (phase # "new" /\ GivenIsPSBT /\ xpubs_of(GivenPSBT, wallet).ok
            /\ Len(GivenPSBT.inputs) >= 1
            /\ \A i \in 1..Len(InputPolicies) :
                  InputPolicies[i].ok /\ InputPolicies[i].val = InputPolicies[1].val) =>
        LET inferred == InputPolicies[1].val
        IN  /\ SatisfiesIsMultisig(inferred) # wallet.multisig =>
                (phase = "rejected" /\ error \in {"multisig tx", "not multisig tx"})
            /\ (SatisfiesIsMultisig(inferred) = wallet.multisig
                    /\ wallet.loaded /\ wallet.policy # inferred) =>
                (phase = "rejected" /\ error = "policy mismatch")
            /\ (SatisfiesIsMultisig(inferred) = wallet.multisig
                    /\ (wallet.loaded => wallet.policy = inferred)) =>
                phase \in {"ready", "signed"}

\* a multisig PSBT was refused by a loaded multisig wallet of another policy
C3_Witness ==
    /\ phase = "rejected"
    /\ error = "policy mismatch"
    /\ wallet.multisig
    /\ wallet.loaded

\* the keys of an input for which the wallet's seed can sign
OwnKeys(inp) ==
    { d.pub : d \in { e \in Range(inp.bip32_derivations) :
                        e.fingerprint = wallet.fingerprint
                        /\ e.pub = <<wallet.fingerprint>> \o e.derivation } }

NoOwnKeys == \A i \in 1..Len(psbt.inputs) : OwnKeys(psbt.inputs[i]) = {}

\* C6: sign() replaces the PSBT by the transaction skeleton with each input's
\* partial signatures, and nothing else, exactly when a signature was added;
\* when none was, it fails with "cannot sign" and leaves the PSBT, the policy,
\* base_encoding and ur_type as they were.
C6_SignTrimsOrFails ==
    [][ last'.op = "sign" =>
          /\ (psbt' # psbt) <=> ~NoOwnKeys
          /\ ~NoOwnKeys =>
                /\ error' = ""
                /\ psbt'.tx = psbt.tx
                /\ psbt'.xpubs = <<>>
                /\ Len(psbt'.inputs) = Len(psbt.inputs)
                /\ \A i \in 1..Len(psbt.inputs) :
                      /\ psbt'.inputs[i].partial_sigs =
                            psbt.inputs[i].partial_sigs \cup OwnKeys(psbt.inputs[i])
                      /\ psbt'.inputs[i].witness_utxo = NoUtxo
                      /\ psbt'.inputs[i].witness_script = NoScript
                      /\ psbt'.inputs[i].redeem_script = NoScript
                      /\ psbt'.inputs[i].bip32_derivations = <<>>
                /\ \A i \in 1..Len(psbt'.outputs) : psbt'.outputs[i] = BlankOutput
          /\ NoOwnKeys =>
                /\ error' = "cannot sign"
                /\ UNCHANGED <<psbt, policy, base_encoding, ur_type>>
      ]_vars

\* a signer that signed, keeping the cosigner's signature beside its own, and
\* then refused to sign again
C6_Witness ==
    /\ phase = "signed"
    /\ last.op = "sign"
    /\ error = "cannot sign"
    /\ \E i \in 1..Len(psbt.inputs) : Cardinality(psbt.inputs[i].partial_sigs) = 2

\* decoding a payload the way an encoding prescribes: "ur", "raw", or "base"
\* with the base
DecodeAs(encoding, base, payload) ==
    CASE encoding = "ur" ->
            IF is_UR(payload) THEN parse(from_cbor(payload)) ELSE Raise("not a UR")
      [] encoding = "raw" ->
            IF is_UR(payload) THEN Raise("not bytes") ELSE parse(payload)
      [] OTHER ->
            IF is_UR(payload) THEN Raise("not text") ELSE parse_base(payload, base)

\* the base of psbt_data when it is base-N text
GivenBase == IF GivenEncoding = "base" THEN psbt_data.base ELSE 0

OwnedByWallet(i) ==
    LET out == psbt.outputs[i]
        spk == psbt.tx.vout[i].script_pubkey
        x == xpubs_of(psbt, wallet)
    IN  /\ x.ok
        /\ get_policy(out, spk, x.val) = Ok(policy)
        /\ CASE policy.type = "p2wsh" ->
                    out.witness_script # NoScript /\ spk = p2wsh(out.witness_script)
             [] policy.type = "p2sh-p2wsh" ->
                    out.witness_script # NoScript /\ spk = p2sh(p2wsh(out.witness_script))
             [] policy.type = "p2wpkh" ->
                    /\ Len(out.bip32_derivations) > 0
                    /\ spk = p2wpkh(<<wallet.fingerprint>> \o out.bip32_derivations[1].derivation)
             [] policy.type = "p2sh-p2wpkh" ->
                    /\ Len(out.bip32_derivations) > 0
                    /\ spk = p2sh(p2wpkh(<<wallet.fingerprint>>
                                         \o out.bip32_derivations[1].derivation))
             [] OTHER -> FALSE

\* outputs() was called on a signer fresh from an accepted construction
OutputsCalled == phase = "ready" /\ last.op = "outputs"

\* C1: for an accepted PSBT outputs() completes, and an output is classified as
\* self-transfer or change exactly when its policy is the inputs' policy and
\* its scriptPubKey is the one rebuilt for it; every other output is a spend.
C1_OwnedIffPolicyAndScript ==
    OutputsCalled =>
        /\ last.out.ok
        /\ \A i \in 1..Len(psbt.outputs) :
              (last.out.val.classes[i] \in {"self-transfer", "change"}) <=> OwnedByWallet(i)

\* the second-to-last index of the derivation path of output i, -1 if there is none
ChangeFlagIndex(i) ==
    LET ders == psbt.outputs[i].bip32_derivations
    IN  IF Len(ders) = 0 \/ Len(ders[1].derivation) < 2 THEN -1
        ELSE ders[1].derivation[Len(ders[1].derivation) - 1]

\* C4: when every output is wallet-owned, outputs() completes and an output is
\* change exactly when the second-to-last index of its derivation path is 1,
\* and self-transfer otherwise, whatever the length of the path.
C4_ChangeFlag ==
    (OutputsCalled /\ \A i \in 1..Len(psbt.outputs) : OwnedByWallet(i)) =>
        /\ last.out.ok
        /\ \A i \in 1..Len(psbt.outputs) :
              last.out.val.classes[i] =
                  IF ChangeFlagIndex(i) = 1 THEN "change" ELSE "self-transfer"

\* C5: for an accepted PSBT outputs() puts every output in exactly one of the
\* three lists and reports as fee the inputs' total less the outputs' total.
C5_ClassesAndFee ==
    OutputsCalled =>
        /\ last.out.ok
        /\ Len(last.out.val.spend_list) + Len(last.out.val.self_transfer_list)
              + Len(last.out.val.change_list) = Len(psbt.outputs)
        /\ last.out.val.fee =
              SumSeq([k \in 1..Len(psbt.inputs) |-> psbt.inputs[k].witness_utxo.value])
              - SumSeq([k \in 1..Len(psbt.tx.vout) |-> psbt.tx.vout[k].value])

(***************************************************************************)
(* Properties of the parsing in PSBTSigner.__init__.                       *)
(***************************************************************************)
\* the order in which the decodings of non-UR data are to be tried
FixedOrder == <<"raw", "base64", "base58", "base43">>

\* what decoding psbt_data in one encoding gives
Reading(encoding) ==
    CASE encoding = "ur" -> IF is_UR(psbt_data) THEN parse(from_cbor(psbt_data))
                            ELSE Raise("not a UR")
      [] encoding = "raw" -> parse(psbt_data)
      [] encoding = "base64" -> parse_base(psbt_data, 64)
      [] encoding = "base58" -> parse_base(psbt_data, 58)
      [] OTHER -> parse_base(psbt_data, 43)

\* the decodings open to psbt_data, in order
Candidates == IF is_UR(psbt_data) THEN <<"ur">> ELSE FixedOrder

\* the try blocks entered so far
Tried == SelectSeq(call, LAMBDA step : step # "validate")

\* base_encoding and ur_type name the encoding; asBase64 is the raw binary
\* input to be answered in Base64
RecordedAs(encoding, asBase64) ==
    /\ ur_type = IF encoding = "ur" THEN CRYPTO_PSBT ELSE ""
    /\ base_encoding = CASE encoding = "base64" -> 64
                         [] encoding = "base58" -> 58
                         [] encoding = "base43" -> 43
                         [] encoding = "raw" /\ asBase64 -> 64
                         [] OTHER -> 0

\* the decodings are tried in the fixed order, each only after the one before
\* failed; the first that parses gives the PSBT and the recorded encoding and
\* ends the parsing; "invalid PSBT" is raised exactly when none parses, and
\* then nothing is validated.  pmofnAsBase64 lets raw binary input given with
\* FORMAT_PMOFN be recorded as Base64.
DecodeContract(pmofnAsBase64) ==
    LET tried == Tried
        n == Len(tried)
        parsed == phase \in {"parsed", "ready"}
                  \/ (phase = "rejected" /\ error # "invalid PSBT")
        none == \A k \in 1..Len(Candidates) : ~Reading(Candidates[k]).ok
    IN  /\ n <= Len(Candidates)
        /\ tried = SubSeq(Candidates, 1, n)
        /\ \A k \in 1..(n - 1) : ~Reading(tried[k]).ok
        /\ parsed =>
              /\ n >= 1
              /\ Reading(tried[n]) = Ok(psbt)
              /\ RecordedAs(tried[n], pmofnAsBase64 /\ qr_format = FORMAT_PMOFN)
        /\ phase = "parsing" => (n >= 1 /\ ~Reading(tried[n]).ok /\ ret.pc = Candidates[n + 1])
        /\ (phase = "rejected" /\ error = "invalid PSBT") =>
              /\ none
              /\ tried = Candidates
              /\ "validate" \notin Range(call)
              /\ policy = NoPolicy
              /\ psbt = <<>>
        /\ (none /\ phase \in {"ready", "rejected"}) =>
              (phase = "rejected" /\ error = "invalid PSBT")
        /\ "validate" \in Range(call) =>
              (call = Append(tried, "validate") /\ Reading(tried[n]).ok)

\* C11 as stated: the encoding recorded is always the one that parsed.
C11_DecodingOrderExact == DecodeContract(FALSE)

\* C11: the decodings of non-UR input are tried in the order raw binary,
\* Base64, Base58, Base43; the first that parses gives the PSBT and the
\* recorded encoding, except that raw binary given with FORMAT_PMOFN is recorded
\* as Base64; no later decoding is tried; "invalid PSBT" is raised exactly when
\* every decoding fails (for a UR, when its decoding fails), and then no policy
\* is validated.
C11_DecodingOrder == DecodeContract(TRUE)

\* text readable as Base64 and as Base58 was taken as Base64, after raw binary
\* had failed, and validated
C11_Witness ==
    /\ phase = "ready"
    /\ call = <<"raw", "base64", "validate">>
    /\ Reading("base58").ok
    /\ Reading("base58") # Reading("base64")
    /\ base_encoding = 64

(***************************************************************************)
(* PSBTSigner.xpubs, called by __init__ and on a constructed signer.       *)
(***************************************************************************)
Xpubs ==
    /\ phase \in {"ready", "signed"}
    /\ LET r == xpubs_of(psbt, wallet)
       IN  /\ last' = [op |-> "xpubs", out |-> r]
           /\ error' = r.err
    /\ UNCHANGED <<wallet, psbt_data, qr_format, phase, psbt, policy,
                   base_encoding, ur_type, call, ret>>

NextXpubs == Construct \/ Sign \/ Xpubs

\* descriptors whose keys carry an origin, some of them, or none
PureDescriptor ==
    Descriptor(DescriptorKey(derive(root(1), AcctS("p2wpkh")), NoOrigin), <<>>)

MixedDescriptor ==
    Descriptor(NoKey, <<DescriptorKey(Xpub(1), Origin(1, AcctM)),
                        DescriptorKey(Xpub(2), NoOrigin)>>)

PureMultiDescriptor ==
    Descriptor(NoKey, <<DescriptorKey(Xpub(1), NoOrigin), DescriptorKey(Xpub(2), NoOrigin)>>)

XpubsWallets ==
    { Wallet(1, FALSE, FALSE, NoPolicy, NoDescriptor),
      Wallet(1, FALSE, TRUE, SinglePolicy("p2wpkh"), SingleDescriptor("p2wpkh")),
      Wallet(1, FALSE, TRUE, SinglePolicy("p2wpkh"), PureDescriptor),
      Wallet(1, TRUE, FALSE, NoPolicy, NoDescriptor),
      Wallet(1, TRUE, TRUE, MultiPolicy(2), MultiDescriptor),
      Wallet(1, TRUE, TRUE, MultiPolicy(2), MixedDescriptor),
      Wallet(1, TRUE, TRUE, MultiPolicy(2), PureMultiDescriptor) }

\* every wallet and descriptor, PSBTs with and without a global xpub map, inputs
\* whose policy can and cannot be inferred
InitXpubs ==
    /\ wallet \in XpubsWallets
    /\ qr_format = 0
    /\ \E x \in {<<>>, <<XEntry(2)>>, <<XEntry(1), XEntry(2)>>},
          ins \in SeqsOf({InWpkh, InMulti, InSpoofed, InNoUtxo}, 1, MaxInputs) :
          psbt_data = serialize(MakePSBT(x, ins, <<OutSpendWpkh>>))
    /\ Unconstructed

SpecXpubs == InitXpubs /\ [][NextXpubs]_vars

(***************************************************************************)
(* Properties of PSBTSigner.xpubs.                                         *)
(***************************************************************************)
\* the keys the wallet's descriptor declares
DescriptorKeys ==
    IF wallet.descriptor = NoDescriptor THEN {}
    ELSE IF wallet.descriptor.key # NoKey THEN {wallet.descriptor.key}
    ELSE Range(wallet.descriptor.keys)

\* those that carry an origin, each with its origin's fingerprint and path
OriginXpubs ==
    { [xpub |-> k.key, fingerprint |-> k.origin.fingerprint,
       derivation |-> k.origin.derivation] :
        k \in {d \in DescriptorKeys : d.origin # NoOrigin} }

\* what xpubs() is to answer for a PSBT: its global map if that is not empty,
\* else the descriptor's keys with an origin, and "missing xpubs" if there is none
XpubsAnswer(p, out) ==
    IF p.xpubs # <<>> THEN out = Ok(p.xpubs)
    ELSE IF OriginXpubs = {} THEN (~out.ok /\ out.err = "missing xpubs")
    ELSE out.ok /\ Range(out.val) = OriginXpubs /\ Len(out.val) = Cardinality(OriginXpubs)

\* C12: xpubs() returns the PSBT's global xpub map when it is not empty;
\* otherwise exactly the descriptor's keys that carry an origin, with their
\* fingerprint and path; it fails with "missing xpubs" whenever that leaves no
\* xpub at all, and then the construction fails before any policy is inferred.
C12_XpubSources ==
    /\ last.op = "xpubs" => XpubsAnswer(psbt, last.out)
    /\ (phase # "new" /\ GivenPSBT.xpubs = <<>> /\ OriginXpubs = {}) =>
          (phase = "rejected" /\ error = "missing xpubs")
    /\ error = "missing xpubs" /\ last.op = "__init__" =>
          (phase = "rejected" /\ policy = NoPolicy /\ GivenPSBT.xpubs = <<>>)

====
